---- MODULE Spec2Model ----
(***************************************************************************)
(* Model of keras_htr/models/encoder_decoder.py:                           *)
(* ConvolutionalEncoderDecoderWithAttention (predict, the training unroll  *)
(* of fit, save and load) and its InferenceModel (the greedy loop).        *)
(*                                                                         *)
(* The three sub-networks (encoder, attention, step decoder) are trained   *)
(* tensor functions.  They are modelled as deterministic functions of      *)
(* their inputs and weights, drawn from a family in which the decoder's    *)
(* weights are a script of argmax codes replayed cyclically, so that every *)
(* raw stream of codes up to the script length (eos never produced, sos    *)
(* produced anywhere) is the behaviour of some decoder.                    *)
(*                                                                         *)
(* Spec follows every operation of an instance, each call of the loop for  *)
(* MaxSteps iterations.  SpecCap follows predict alone, with short         *)
(* scripts, until the cap on the number of labels has been passed.         *)
(***************************************************************************)
EXTENDS Integers, Sequences, FiniteSets, TLC

\* ---------------------------------------------------------------- bounds
\* size of the vocabulary the instances are built with
OutputSize == 4
\* longest batch given to predict (and number of distinct images)
MaxBatch == 2
\* longest script of codes a decoder replays
MaxScriptLen == 3
\* iterations of the inference loop followed per call
MaxSteps == 6
\* longest script of the decoders that are followed up to the label cap
CapScriptLen == 2
\* largest max_text_length of an instance
MaxTextLength == 3

\* ------------------------------------------------------ program constants
\* `len(labels) > 100` in the loop's break condition
LabelCap == 100

\* iterations followed per call where the cap is to be reached
CapSteps == LabelCap + 5

Codes == 0 .. (OutputSize - 1)
Images == 0 .. (MaxBatch - 1)

SeqsUpTo(S, lo, hi) == UNION {[1 .. k -> S] : k \in lo .. hi}

Scripts == SeqsUpTo(Codes, 1, MaxScriptLen)
\* batches of distinct images, in ascending and in descending order
Batches ==
    {[j \in 1 .. k |-> j - 1] : k \in 0 .. MaxBatch}
    \cup {[j \in 1 .. k |-> k - j] : k \in 0 .. MaxBatch}

\* ------------------------------------------------------------ tensors
\* y_prev = np.zeros((1, num_output_tokens)); y_prev[0, code] = 1.0
OneHot(num_output_tokens, code) ==
    [k \in 0 .. (num_output_tokens - 1) |-> IF k = code THEN 1 ELSE 0]

\* np.argmax(pmf): the first index holding the largest entry
ArgMax(pmf) ==
    CHOOSE k \in DOMAIN pmf :
        /\ \A j \in DOMAIN pmf : pmf[j] <= pmf[k]
        /\ \A j \in DOMAIN pmf : pmf[j] = pmf[k] => k <= j

\* ------------------------------------------------------------ networks
\* self._encoder(x): (encoder_activations, state_h, state_c), a function of
\* the image and the encoder's weights only
Encoder(w, x) ==
    [encoder_activations |-> x + w, state_h |-> 0, state_c |-> w]

\* self._attention([encoder_activations, state_h, state_c]): the context, a
\* function of the three inputs and the attention weights
Attention(w, inputs) ==
    [w |-> w, a |-> inputs[1], h |-> inputs[2], c |-> inputs[3]]

\* concatenator([context, y_prev])
Concatenate(context, y) == <<context, y>>

\* self._decoder([z, state_h, state_c]): (y_hat, state_h, state_c).  The
\* weights are a script of codes; the recurrent state h is the position in
\* the script, c remembers the token that was fed in, and the activations
\* seen through the context shift the emitted code.
Decoder(w, z, h, c) ==
    LET pos == (h % Len(w)) + 1
        emit == (w[pos] + z[1].a) % OutputSize
    IN  [y_hat |-> OneHot(OutputSize, emit),
         state_h |-> (h + 1) % Len(w),
         state_c |-> ArgMax(z[2])]

VARIABLES
    pc,                   \* position of the caller
    self,                 \* the model instance (its fields)
    X, sos, eos,          \* predict's inputs
    item,                 \* index of the image the list comprehension is at
    results,              \* label sequences collected by predict
    encoder_activations, state_h, state_c, y_prev, labels,
    raw,                  \* argmax codes produced so far in this call
    att_in, dec_in, dec_out,  \* arguments / result of the latest calls
    t,                    \* loop variable of the unroll, read by the lambdas
    outputs,              \* symbolic outputs of the training model
    graph,                \* the layer calls recorded by the unroll
    encoder_inputs, decoder_inputs,   \* one training pair fed to the graph
    rerun,                \* whether the framework calls the layers again
    forward,              \* per step: what running the graph computed
    fs,                   \* the model directory
    preprocessing_params, \* argument of the latest save
    instance              \* what load returned

predictVars == <<X, sos, eos, item, results, y_prev, labels, raw, att_in,
                 dec_in, dec_out>>
trainVars == <<t, outputs, graph, encoder_inputs, decoder_inputs, rerun,
               forward>>
storeVars == <<fs, preprocessing_params, instance>>

vars == <<pc, self, encoder_activations, state_h, state_c, predictVars,
          trainVars, storeVars>>

NoCall == <<>>

\* ------------------------------------------------------ persisted values
\* Python values that occur in the parameter dictionaries
PyInt(n) == [tag |-> "int", v |-> <<n>>]
PyStr(chars) == [tag |-> "str", v |-> chars]
PyList(items) == [tag |-> "list", v |-> items]
PyTuple(items) == [tag |-> "tuple", v |-> items]

\* a dict is the set of its (key, value) pairs
Get(d, key) == (CHOOSE kv \in d : kv[1] = key)[2]

PrefValues == {PyInt(50), PyStr(<<1>>), PyList(<<1, 2>>), PyTuple(<<1, 2>>)}
PrefKeys == {"average_height", "target_size"}
PrefsSet ==
    UNION {{{<<k, f[k]>> : k \in ks} : f \in [ks -> PrefValues]} :
             ks \in SUBSET PrefKeys}

\* what a saved network file holds, and tf.keras.models.load_model of it
SaveNetwork(weights) == [format |-> "h5", weights |-> weights]
LoadNetwork(file) == file.weights

\* json.dumps of a value: ints are numbers, strings are strings, lists and
\* tuples are both arrays
ToJson(val) ==
    [tag |-> CASE val.tag = "int" -> "number"
               [] val.tag = "str" -> "string"
               [] OTHER -> "array",
     v |-> val.v]

\* json.loads of a value: an array always comes back as a list
FromJson(j) ==
    [tag |-> CASE j.tag = "number" -> "int"
               [] j.tag = "string" -> "str"
               [] OTHER -> "list",
     v |-> j.v]

\* HTRModel.save_model_params: the JSON record written to params.json
SaveModelParams(name, model_params, preprocessing) ==
    [name |-> name,
     params |-> {<<kv[1], ToJson(kv[2])>> : kv \in model_params},
     preprocessing |-> {<<kv[1], ToJson(kv[2])>> : kv \in preprocessing}]

\* d = json.loads(s)
JsonLoads(doc) ==
    [name |-> doc.name,
     params |-> {<<kv[1], FromJson(kv[2])>> : kv \in doc.params},
     preprocessing |-> {<<kv[1], FromJson(kv[2])>> : kv \in doc.preprocessing}]

\* ------------------------------------------------------------ the model
\* weights of the sub-networks that __init__ builds, before any training
FreshEncoder == 0
FreshDecoder == <<0>>
FreshAttention == 0

\* __init__: the fields of a constructed instance (sub-networks given by
\* their weights)
NewModel(height, units, output_size, max_image_width, max_text_length, s, e) ==
    [height |-> height, units |-> units, output_size |-> output_size,
     max_image_width |-> max_image_width,
     max_text_length |-> max_text_length,
     sos |-> s, eos |-> e,
     encoder |-> FreshEncoder, decoder |-> FreshDecoder,
     attention |-> FreshAttention,
     num_output_tokens |-> output_size,
     preprocessing_options |-> {}]

\* model_params = dict(height=self._height, ...)
ModelParams(m) ==
    {<<"height", PyInt(m.height)>>, <<"units", PyInt(m.units)>>,
     <<"output_size", PyInt(m.output_size)>>,
     <<"max_image_width", PyInt(m.max_image_width)>>,
     <<"max_text_length", PyInt(m.max_text_length)>>,
     <<"sos", PyInt(m.sos)>>, <<"eos", PyInt(m.eos)>>}

\* variant: the preprocessing options of the record are not taken over
LoadInstance_NoOptions(dir) ==
    LET d == JsonLoads(dir.params_json)
        params == d.params
        created == NewModel(Get(params, "height").v[1],
                            Get(params, "units").v[1],
                            Get(params, "output_size").v[1],
                            Get(params, "max_image_width").v[1],
                            Get(params, "max_text_length").v[1],
                            Get(params, "sos").v[1],
                            Get(params, "eos").v[1])
    IN  [created EXCEPT !.encoder = LoadNetwork(dir.encoder_h5),
                        !.decoder = LoadNetwork(dir.decoder_h5),
                        !.attention = LoadNetwork(dir.attention_h5)]

\* the instance load returns for the files of a model directory
LoadInstance(dir) ==
    LET d == JsonLoads(dir.params_json)
        params == d.params
        created == NewModel(Get(params, "height").v[1],
                            Get(params, "units").v[1],
                            Get(params, "output_size").v[1],
                            Get(params, "max_image_width").v[1],
                            Get(params, "max_text_length").v[1],
                            Get(params, "sos").v[1],
                            Get(params, "eos").v[1])
    IN  [created EXCEPT !.encoder = LoadNetwork(dir.encoder_h5),
                        !.decoder = LoadNetwork(dir.decoder_h5),
                        !.attention = LoadNetwork(dir.attention_h5),
                        !.preprocessing_options = d.preprocessing]

\* instances a caller holds: constructed, then trained to some weights
Trained(m, encoder, decoder, attention) ==
    [m EXCEPT !.encoder = encoder, !.decoder = decoder,
              !.attention = attention]

Models ==
    {Trained(NewModel(1, 1, OutputSize, 1, 1, 0, 1), 0, script, 0) :
        script \in Scripts}
    \cup
    {Trained(NewModel(7, 5, OutputSize, 6, len, se[1], se[2]), 1, <<1>>, 2) :
        len \in 1 .. MaxTextLength, se \in {<<0, 1>>, <<3, 2>>}}

NoTensor == <<>>

\* decoders followed until the cap on the labels takes effect
CapModels ==
    {Trained(NewModel(1, 1, OutputSize, 1, 1, 0, 1), 0, script, 0) :
        script \in SeqsUpTo(Codes, 1, CapScriptLen)}

InitFrom(models) ==
    /\ pc = "idle"
    /\ self \in models
    /\ X = <<>> /\ sos = 0 /\ eos = 0
    /\ item = 1
    /\ results = <<>>
    /\ encoder_activations = NoTensor
    /\ state_h = NoTensor /\ state_c = NoTensor
    /\ y_prev = NoTensor
    /\ labels = <<>>
    /\ raw = <<>>
    /\ att_in = NoCall /\ dec_in = NoCall /\ dec_out = NoCall
    /\ t = -1
    /\ outputs = <<>>
    /\ graph = <<>>
    /\ encoder_inputs = NoTensor /\ decoder_inputs = NoTensor
    /\ rerun = FALSE
    /\ forward = <<>>
    /\ fs = [dir |-> FALSE]
    /\ preprocessing_params = {}
    /\ instance = <<>>

Init == InitFrom(Models)
InitCap == InitFrom(CapModels)

\* predict(inputs): X, sos, eos = inputs; the list comprehension starts
Predict ==
    /\ pc = "idle"
    /\ \E Xin \in Batches, s \in Codes, e \in Codes :
         /\ X' = Xin
         /\ sos' = s
         /\ eos' = e
    /\ item' = 1
    /\ results' = <<>>
    /\ pc' = "call"
    /\ UNCHANGED <<self, encoder_activations, state_h, state_c, y_prev,
                   labels, raw, att_in, dec_in, dec_out, trainVars,
                   storeVars>>

\* variant: the labels list outlives the call
PredictSingleEntry_Carry ==
    /\ pc = "call"
    /\ item <= Len(X)
    /\ LET enc == Encoder(self.encoder, X[item])
       IN  /\ encoder_activations' = enc.encoder_activations
           /\ state_h' = enc.state_h
           /\ state_c' = enc.state_c
    /\ y_prev' = OneHot(self.num_output_tokens, sos)
    /\ labels' = labels
    /\ raw' = <<>>
    /\ att_in' = NoCall /\ dec_in' = NoCall /\ dec_out' = NoCall
    /\ pc' = "loop"
    /\ UNCHANGED <<self, X, sos, eos, item, results, trainVars, storeVars>>

\* predict_single_output, up to the loop: encode, y_prev at sos, no labels
PredictSingleEntry ==
    /\ pc = "call"
    /\ item <= Len(X)
    /\ LET enc == Encoder(self.encoder, X[item])
       IN  /\ encoder_activations' = enc.encoder_activations
           /\ state_h' = enc.state_h
           /\ state_c' = enc.state_c
    /\ y_prev' = OneHot(self.num_output_tokens, sos)
    /\ labels' = <<>>
    /\ raw' = <<>>
    /\ att_in' = NoCall /\ dec_in' = NoCall /\ dec_out' = NoCall
    /\ pc' = "loop"
    /\ UNCHANGED <<self, X, sos, eos, item, results, trainVars, storeVars>>

\* inputs = [encoder_activations, state_h, state_c]
AttentionInputs(activations, h, c) == <<activations, h, c>>

\* variant: an emitted sos is skipped before it is fed back
FeedBack_SkipFirst(num_output_tokens, code, s, previous) ==
    IF code = s THEN previous ELSE OneHot(num_output_tokens, code)

\* y_prev = np.zeros(...); y_prev[0, code] = 1.0 after every decoder call
FeedBack(num_output_tokens, code, s, previous) ==
    OneHot(num_output_tokens, code)

\* variant: the loop is left on the length test only
LoopBreaks_NoEos(code, e, lbls) == Len(lbls) > LabelCap

\* `if code == eos or len(labels) > 100: break`
LoopBreaks(code, e, lbls) == code = e \/ Len(lbls) > LabelCap

\* variant: an emitted sos is kept
LoopSkips_Never(code, s) == FALSE

\* `if code == sos: continue`
LoopSkips(code, s) == code = s

\* variant: the code is put in front
AppendLabel_Front(lbls, code) == <<code>> \o lbls

\* labels.append(code)
AppendLabel(lbls, code) == Append(lbls, code)

\* variant: the decoder's result is unpacked over the activations
LoopBody_Overwrite(m, activations, h, c, y, lbls, s, e) ==
    LET inputs == AttentionInputs(activations, h, c)
        context == Attention(m.attention, inputs)
        z == Concatenate(context, y)
        out == Decoder(m.decoder, z, h, c)
        code == ArgMax(out.y_hat)
    IN  [encoder_activations |-> out.state_h,
         state_h |-> out.state_h,
         state_c |-> out.state_c,
         y_prev |-> FeedBack(m.num_output_tokens, code, s, y),
         code |-> code,
         break |-> LoopBreaks(code, e, lbls),
         labels |-> IF LoopBreaks(code, e, lbls) THEN lbls
                    ELSE IF LoopSkips(code, s) THEN lbls
                    ELSE AppendLabel(lbls, code),
         att_in |-> inputs,
         dec_in |-> <<z, h, c>>,
         dec_out |-> out]

\* the body of `while True`: the locals after one iteration, and whether
\* the loop was left
LoopBody(m, activations, h, c, y, lbls, s, e) ==
    LET inputs == AttentionInputs(activations, h, c)
        context == Attention(m.attention, inputs)
        z == Concatenate(context, y)
        out == Decoder(m.decoder, z, h, c)
        code == ArgMax(out.y_hat)
    IN  [encoder_activations |-> activations,
         state_h |-> out.state_h,
         state_c |-> out.state_c,
         y_prev |-> FeedBack(m.num_output_tokens, code, s, y),
         code |-> code,
         break |-> LoopBreaks(code, e, lbls),
         labels |-> IF LoopBreaks(code, e, lbls) THEN lbls
                    ELSE IF LoopSkips(code, s) THEN lbls
                    ELSE AppendLabel(lbls, code),
         att_in |-> inputs,
         dec_in |-> <<z, h, c>>,
         dec_out |-> out]

\* one iteration of `while True`, followed for at most `bound` iterations
LoopIterationWithin(bound) ==
    /\ pc = "loop"
    /\ Len(raw) < bound
    /\ \E after \in {LoopBody(self, encoder_activations, state_h, state_c,
                             y_prev, labels, sos, eos)} :
           /\ encoder_activations' = after.encoder_activations
           /\ state_h' = after.state_h
           /\ state_c' = after.state_c
           /\ y_prev' = after.y_prev
           /\ labels' = after.labels
           /\ raw' = Append(raw, after.code)
           /\ att_in' = after.att_in
           /\ dec_in' = after.dec_in
           /\ dec_out' = after.dec_out
           /\ pc' = IF after.break THEN "return" ELSE "loop"
    /\ UNCHANGED <<self, X, sos, eos, item, results, trainVars, storeVars>>

LoopIteration == LoopIterationWithin(MaxSteps)
LoopIterationToCap == LoopIterationWithin(CapSteps)

\* predict_single_output as a function of its arguments: the loop run from
\* the state of a new call, for at most fuel iterations
RECURSIVE RunLoop(_, _, _, _, _, _, _, _, _)
RunLoop(m, activations, h, c, y, lbls, s, e, fuel) ==
    IF fuel = 0 THEN <<"running", lbls>>
    ELSE CHOOSE returned \in
            {IF after.break THEN <<"returned", after.labels>>
             ELSE RunLoop(m, after.encoder_activations, after.state_h,
                          after.state_c, after.y_prev, after.labels, s, e,
                          fuel - 1) :
                after \in {LoopBody(m, activations, h, c, y, lbls, s, e)}} :
            TRUE

PredictSingleOutput(m, x, s, e) ==
    LET enc == Encoder(m.encoder, x)
    IN  RunLoop(m, enc.encoder_activations, enc.state_h, enc.state_c,
                OneHot(m.num_output_tokens, s), <<>>, s, e, MaxSteps)

\* `return labels`, collected by the list comprehension of predict
PredictSingleReturn ==
    /\ pc = "return"
    /\ results' = Append(results, labels)
    /\ item' = item + 1
    /\ pc' = "call"
    /\ UNCHANGED <<self, X, sos, eos, encoder_activations, state_h, state_c,
                   y_prev, labels, raw, att_in, dec_in, dec_out, trainVars,
                   storeVars>>

\* the comprehension is exhausted: np.array(...) of the rows is returned
PredictReturn ==
    /\ pc = "call"
    /\ item > Len(X)
    /\ pc' = "predicted"
    /\ UNCHANGED <<self, encoder_activations, state_h, state_c, predictVars,
                   trainVars, storeVars>>

\* ------------------------------------------------------ training unroll
\* symbolic tensors of the graph under construction
SymEncoder(out) == [op |-> "encoder", step |-> -1, out |-> out]
SymDecoder(step, out) == [op |-> "decoder", step |-> step, out |-> out]

\* `lambda x: x[:, t, :]`: the function reads the variable t when it is
\* called, cell being the value t has at that moment
SliceAt(cell) == cell

\* fit -> _create_training_model, up to the loop
CreateTrainingModelEntry ==
    /\ pc = "idle"
    /\ encoder_activations' = SymEncoder("encoder_activations")
    /\ state_h' = SymEncoder("state_h")
    /\ state_c' = SymEncoder("state_c")
    /\ outputs' = <<>>
    /\ graph' = <<>>
    /\ t' = -1
    /\ pc' = "unroll"
    /\ UNCHANGED <<self, predictVars, encoder_inputs, decoder_inputs, rerun,
                   forward, storeVars>>

\* one iteration of `for t in range(self._max_text_length)`: the layers are
\* called on symbolic tensors, the Lambda's function being evaluated once
\* to trace it
UnrollStep ==
    /\ pc = "unroll"
    /\ t + 1 < self.max_text_length
    /\ t' = t + 1
    /\ LET inputs == AttentionInputs(encoder_activations, state_h, state_c)
       IN  graph' = Append(graph, [attention_inputs |-> inputs,
                                   slice |-> SliceAt(t'),
                                   decoder_state |-> <<state_h, state_c>>])
    /\ state_h' = SymDecoder(t', "state_h")
    /\ state_c' = SymDecoder(t', "state_c")
    /\ outputs' = Append(outputs, SymDecoder(t', "y_hat"))
    /\ UNCHANGED <<pc, self, encoder_activations, predictVars, encoder_inputs,
                   decoder_inputs, rerun, forward, storeVars>>

\* the loop is over: tf.keras.Model([...], outputs)
CreateTrainingModelReturn ==
    /\ pc = "unroll"
    /\ ~(t + 1 < self.max_text_length)
    /\ pc' = "built"
    /\ UNCHANGED <<self, encoder_activations, state_h, state_c, predictVars,
                   trainVars, storeVars>>

\* training_model.fit(...): the graph is run on a training pair.  A build
\* that executes the traced graph does not call the Lambda's function again;
\* a build that runs the functional model eagerly calls every layer again.
FitForward ==
    /\ pc = "built"
    /\ \E x \in Images, codes \in [1 .. self.max_text_length -> Codes],
          again \in BOOLEAN :
         /\ encoder_inputs' = x
         /\ decoder_inputs' =
                [k \in 1 .. self.max_text_length |->
                    OneHot(self.output_size, codes[k])]
         /\ rerun' = again
    /\ forward' = <<>>
    /\ pc' = "forward"
    /\ UNCHANGED <<self, encoder_activations, state_h, state_c, predictVars,
                   t, outputs, graph, storeVars>>

\* the value a symbolic tensor takes in the current run
ValueOf(sym, done, x) ==
    IF sym.op = "encoder"
    THEN Encoder(self.encoder, x)[sym.out]
    ELSE done[sym.step + 1][sym.out]

\* the run evaluates the next recorded step
ForwardStep ==
    /\ pc = "forward"
    /\ Len(forward) < Len(graph)
    /\ LET node == graph[Len(forward) + 1]
           position == IF rerun THEN SliceAt(t) ELSE node.slice
           y == decoder_inputs[position + 1]
           inputs == <<ValueOf(node.attention_inputs[1], forward, encoder_inputs),
                       ValueOf(node.attention_inputs[2], forward, encoder_inputs),
                       ValueOf(node.attention_inputs[3], forward, encoder_inputs)>>
           context == Attention(self.attention, inputs)
           z == Concatenate(context, y)
           h == ValueOf(node.decoder_state[1], forward, encoder_inputs)
           c == ValueOf(node.decoder_state[2], forward, encoder_inputs)
           out == Decoder(self.decoder, z, h, c)
       IN  forward' = Append(forward,
                             [y_hat |-> out.y_hat, state_h |-> out.state_h,
                              state_c |-> out.state_c, position |-> position,
                              attention_inputs |-> inputs,
                              decoder_inputs |-> <<z, h, c>>])
    /\ UNCHANGED <<pc, self, encoder_activations, state_h, state_c,
                   predictVars, t, outputs, graph, encoder_inputs,
                   decoder_inputs, rerun, storeVars>>

\* every output of the training model has been computed
ForwardDone ==
    /\ pc = "forward"
    /\ Len(forward) = Len(graph)
    /\ pc' = "fitted"
    /\ UNCHANGED <<self, encoder_activations, state_h, state_c, predictVars,
                   trainVars, storeVars>>

\* ------------------------------------------------------------ save / load
\* save(path, preprocessing_params); the directory is made when absent
Save ==
    /\ pc \in {"idle", "saved"}
    /\ \E prefs \in PrefsSet :
         /\ preprocessing_params' = prefs
         /\ fs' = [dir |-> TRUE,
                   params_json |->
                       SaveModelParams("ConvolutionalEncoderDecoderWithAttention",
                                       ModelParams(self), prefs),
                   encoder_h5 |-> SaveNetwork(self.encoder),
                   decoder_h5 |-> SaveNetwork(self.decoder),
                   attention_h5 |-> SaveNetwork(self.attention)]
    /\ pc' = "saved"
    /\ UNCHANGED <<self, encoder_activations, state_h, state_c, predictVars,
                   trainVars, instance>>

\* load(path)
Load ==
    /\ pc = "saved"
    /\ instance' = LoadInstance(fs)
    /\ pc' = "loaded"
    /\ UNCHANGED <<self, encoder_activations, state_h, state_c, predictVars,
                   trainVars, fs, preprocessing_params>>

Next ==
    \/ Predict
    \/ PredictSingleEntry
    \/ LoopIteration
    \/ PredictSingleReturn
    \/ PredictReturn
    \/ CreateTrainingModelEntry
    \/ UnrollStep
    \/ CreateTrainingModelReturn
    \/ FitForward
    \/ ForwardStep
    \/ ForwardDone
    \/ Save
    \/ Load

Spec == Init /\ [][Next]_vars

\* predict alone, every call followed until the cap on the labels is passed
NextCap ==
    \/ Predict
    \/ PredictSingleEntry
    \/ LoopIterationToCap
    \/ PredictSingleReturn
    \/ PredictReturn

SpecCap == InitCap /\ [][NextCap]_vars

\* ------------------------------------------------------------ properties
InCall == pc \in {"loop", "return"}
Last(seq) == seq[Len(seq)]
WithoutSos(seq) == SelectSeq(seq, LAMBDA code : code # sos)

\* C1: the label sequence predict_single_output returns has at most 100
\* entries, whatever codes the decoder produced.
C1_AtMost100Labels ==
    /\ pc = "return" => Len(labels) <= 100
    /\ pc \in {"call", "predicted"} =>
          \A j \in 1 .. Len(results) : Len(results[j]) <= 100

\* C2: a call of predict_single_output performs a bounded number of decode
\* steps: the loop has stopped once the step count has passed the cap (two
\* more steps are allowed for here than the claim's "n > 100").
C2_BoundedSteps == InCall => Len(raw) <= LabelCap + 2

\* C3: the step whose argmax code is eos leaves the loop without appending
\* it, and no step is executed after an eos was produced.
C3_StopsAtFirstEos ==
    /\ [](pc = "loop" => \A k \in 1 .. Len(raw) : raw[k] # eos)
    /\ [][(pc = "loop" /\ raw' # raw /\ Last(raw') = eos)
            => (pc' = "return" /\ labels' = labels)]_vars

C3_Witness ==
    /\ pc = "return" /\ Len(raw) = 3 /\ Last(raw) = eos
    /\ Len(labels) = 2

\* C4: neither sos nor eos ever occurs in the labels of a running call or
\* in a returned label sequence.
C4_NoSosNoEosInLabels ==
    /\ InCall => \A k \in 1 .. Len(labels) : labels[k] \notin {sos, eos}
    /\ pc \in {"call", "predicted"} =>
          \A j \in 1 .. Len(results) :
             \A k \in 1 .. Len(results[j]) : results[j][k] \notin {sos, eos}

C4_Witness ==
    /\ pc = "predicted" /\ sos # eos
    /\ Len(results) = 1 /\ Len(results[1]) = 1
    /\ Len(raw) = 3 /\ raw[2] = sos /\ raw[3] = eos

\* C5: when the raw stream reaches its first eos with fewer than 100 non-sos
\* codes before it, the call returns the codes before that eos with every
\* sos removed, in their order.
C5_ReturnsStreamWithoutSos ==
    (/\ pc = "return"
     /\ Last(raw) = eos
     /\ Len(WithoutSos(SubSeq(raw, 1, Len(raw) - 1))) < 100)
    => labels = WithoutSos(SubSeq(raw, 1, Len(raw) - 1))

C5_Witness ==
    /\ pc = "return" /\ sos = 0 /\ eos = 1
    /\ raw = <<0, 3, 1>> /\ labels = <<3>>

\* C6 as stated: after save(path, prefs) and load(path) the instance has the
\* saving model's configuration fields, preprocessing options equal to
\* prefs for any prefs, and the three restored sub-networks.
ConfigFields ==
    {"height", "units", "output_size", "max_image_width", "max_text_length",
     "sos", "eos"}
SameConfig == \A f \in ConfigFields : instance[f] = self[f]
NetworksRestored ==
    /\ instance.encoder = LoadNetwork(fs.encoder_h5)
    /\ instance.decoder = LoadNetwork(fs.decoder_h5)
    /\ instance.attention = LoadNetwork(fs.attention_h5)
    /\ instance.encoder = self.encoder
    /\ instance.decoder = self.decoder
    /\ instance.attention = self.attention
JsonNative(d) == \A kv \in d : kv[2].tag # "tuple"

C6_RoundTripAnyPrefs ==
    pc = "loaded" =>
        /\ SameConfig
        /\ NetworksRestored
        /\ instance.preprocessing_options = preprocessing_params

\* C6 amended: the same, the preprocessing options being equal to prefs
\* when prefs holds only values JSON keeps apart (no tuple: a tuple is
\* written as an array and read back as a list).
C6_RoundTripJsonPrefs ==
    pc = "loaded" =>
        /\ SameConfig
        /\ NetworksRestored
        /\ JsonNative(preprocessing_params) =>
              instance.preprocessing_options = preprocessing_params

C6_Witness ==
    /\ pc = "loaded"
    /\ self.height = 7 /\ self.sos = 3
    /\ JsonNative(preprocessing_params)
    /\ <<"target_size", PyList(<<1, 2>>)>> \in preprocessing_params
    /\ <<"average_height", PyInt(50)>> \in preprocessing_params
    /\ instance.decoder # FreshDecoder

\* C7: the unroll is a chain of max_text_length steps with as many outputs
\* in step order; step t is fed the teacher-forcing input at position t and
\* the state returned by step t-1, step 0 the encoder's final state.
C7_TeacherForcedChain ==
    /\ pc \in {"built", "forward", "fitted"} =>
          /\ Len(graph) = self.max_text_length
          /\ Len(outputs) = self.max_text_length
          /\ \A k \in 1 .. Len(graph) :
                /\ outputs[k] = SymDecoder(k - 1, "y_hat")
                /\ graph[k].slice = k - 1
                /\ graph[k].decoder_state =
                      IF k = 1
                      THEN <<SymEncoder("state_h"), SymEncoder("state_c")>>
                      ELSE <<SymDecoder(k - 2, "state_h"),
                             SymDecoder(k - 2, "state_c")>>
    /\ pc \in {"forward", "fitted"} =>
          \A k \in 1 .. Len(forward) :
             /\ forward[k].position = k - 1
             /\ forward[k].decoder_inputs[1][2] = decoder_inputs[k]
             /\ forward[k].decoder_inputs[2] =
                   IF k = 1
                   THEN Encoder(self.encoder, encoder_inputs).state_h
                   ELSE forward[k - 1].state_h
             /\ forward[k].decoder_inputs[3] =
                   IF k = 1
                   THEN Encoder(self.encoder, encoder_inputs).state_c
                   ELSE forward[k - 1].state_c

C9_FedBackInputs ==
    /\ []((InCall /\ Len(raw) = 1) =>
            /\ dec_in[1][2] = OneHot(self.num_output_tokens, sos)
            /\ dec_in[2] = Encoder(self.encoder, X[item]).state_h
            /\ dec_in[3] = Encoder(self.encoder, X[item]).state_c)
    /\ []((InCall /\ Len(raw) >= 1) =>
            /\ dec_in[1][1] = Attention(self.attention, att_in)
            /\ att_in[2] = dec_in[2]
            /\ att_in[3] = dec_in[3])
    /\ [][(pc = "loop" /\ Len(raw) >= 1 /\ raw' # raw) =>
            /\ dec_in'[1][2] = OneHot(self.num_output_tokens, Last(raw))
            /\ dec_in'[2] = dec_out.state_h
            /\ dec_in'[3] = dec_out.state_c]_vars

C9_Witness ==
    /\ InCall /\ sos # eos /\ Len(raw) = 3
    /\ raw[1] # sos /\ raw[2] = sos
    /\ dec_in[1][2] = OneHot(self.num_output_tokens, sos)
    /\ dec_in[2] # Encoder(self.encoder, X[item]).state_h

\* C10: the activations are those the encoder produced for the image and no
\* decode step changes them: every attention call of the inference loop and
\* of the training unroll is given them, and an inference step leaves
\* everything but the decoder state, y_prev and the labels alone.
C10_ActivationsFixed ==
    /\ []((InCall /\ Len(raw) >= 1) =>
            /\ att_in[1] = Encoder(self.encoder, X[item]).encoder_activations
            /\ encoder_activations = att_in[1])
    /\ [](\A k \in 1 .. Len(graph) :
            graph[k].attention_inputs[1] = SymEncoder("encoder_activations"))
    /\ [](\A k \in 1 .. Len(forward) :
            forward[k].attention_inputs[1] =
               Encoder(self.encoder, encoder_inputs).encoder_activations)
    /\ [][(pc \in {"loop", "unroll"}) =>
            (UNCHANGED <<encoder_activations, self, X, sos, eos, item,
                         results>>)]_vars

C10_Witness ==
    /\ pc = "loop" /\ Len(raw) = 3 /\ Len(labels) = 3
    /\ att_in[1] = 1 /\ att_in[2] # 0

====
